---- MODULE Spec2Model ----
(***************************************************************************)
(* Campaign dispatch loop and delivery-status reconciliation of voxpop.    *)
(*                                                                         *)
(*   backend/apps/campaigns/api/views.py          start / pause            *)
(*   backend/apps/campaigns/services/campaign_service.py                   *)
(*   backend/apps/campaigns/tasks.py              process_campaign_batch   *)
(*   backend/apps/whatsapp/api/views/webhook_views.py   WebhookView        *)
(*   backend/apps/whatsapp/tasks/webhook_tasks.py       process_webhook    *)
(*                                                                         *)
(* One campaign of one tenant is modelled.  The database rows are the      *)
(* variables camp, items and logs; every Celery worker and every           *)
(* HTTP request keeps the objects it loaded in its own record, so that a   *)
(* save() of a stale object is a write of what was read earlier.           *)
(***************************************************************************)
EXTENDS Integers, Sequences, FiniteSets, TLC

\* ------------------------------------------------------------------------
\* Bounds of the model
\* ------------------------------------------------------------------------
MaxRequests == 3      \* start / pause requests issued by operators
MaxWebhooks == 2      \* webhook requests posted to the endpoint
MaxFaults   == 1      \* worker losses (task re-delivered under acks-late)

Workers   == {1, 2}   \* Celery workers of the 'campaigns' queue
HookWorkers == {1}    \* the worker running in the specification with webhooks
Handlers  == {1}      \* HTTP request handlers of the campaign API
RacingHandlers == {1, 2}   \* the handlers of two requests served side by side
Reconcilers == {1, 2} \* Celery workers of the 'webhooks' queue
HookReconcilers == {1} \* the reconciler running where reconciliation is serial

\* ------------------------------------------------------------------------
\* Program constants
\* ------------------------------------------------------------------------
BATCH_SIZE == 10

None == "None"

\* Campaign.Status
DRAFT     == "draft"
SCHEDULED == "scheduled"
RUNNING   == "running"
PAUSED    == "paused"
COMPLETED == "completed"
CANCELLED == "cancelled"
C_FAILED  == "failed"

\* CampaignItem.Status
PENDING   == "pending"
QUEUED    == "queued"
SENT      == "sent"
DELIVERED == "delivered"
READ      == "read"
FAILED    == "failed"

\* ------------------------------------------------------------------------
\* The contact directory of the tenant (external collaborator, fixed here).
\* Phones are sequences of characters.  The sequence is the iteration order
\* of the Supporter queryset.
\* ------------------------------------------------------------------------
NamedSupporters ==
  << [id |-> 1, name |-> "Ana",  phone |-> <<"5", "1">>,      whatsapp_opt_in |-> TRUE,  tags |-> {"vip"}],
     [id |-> 2, name |-> "Ana2", phone |-> <<"5", "-", "1">>, whatsapp_opt_in |-> TRUE,  tags |-> {"vip"}],
     [id |-> 3, name |-> "Bia",  phone |-> <<"5", "2">>,      whatsapp_opt_in |-> TRUE,  tags |-> {"vip", "lead"}],
     [id |-> 4, name |-> "Caio", phone |-> <<"5", "3">>,      whatsapp_opt_in |-> FALSE, tags |-> {"vip", "optout"}],
     [id |-> 5, name |-> "Duda", phone |-> <<>>,              whatsapp_opt_in |-> TRUE,  tags |-> {"vip"}] >>

\* contacts carrying the tag of the large mailing: one more than a batch
MassContacts == BATCH_SIZE + 1

DigitSeq == << "0", "1", "2", "3", "4", "5", "6", "7", "8", "9" >>

\* the i-th contact of the large mailing; their phones are all different
MassSupporter(i) ==
  [id |-> Len(NamedSupporters) + i, name |-> "Mass",
   phone |-> << DigitSeq[7 + ((i - 1) \div 10)], DigitSeq[1 + ((i - 1) % 10)] >>,
   whatsapp_opt_in |-> TRUE, tags |-> {"mass"}]

Supporters == NamedSupporters \o [i \in 1..MassContacts |-> MassSupporter(i)]

\* Users with a membership in the current tenant, ordered by email.
TeamMembers ==
  << [name |-> "Bia U", phone |-> <<"(", "5", "2", ")">>, is_active |-> TRUE],
     [name |-> "Edu",   phone |-> <<"5", "4">>,           is_active |-> FALSE] >>

\* System tags that exist in the tenant (Tag.objects.filter(slug=.., is_system=True)).
SystemTags == {"lead"}

\* Targeting rules a campaign may have been created with.
Targets ==
  { [tags |-> {},         groups |-> {}],
    [tags |-> {"optout"}, groups |-> {}],
    [tags |-> {"vip"},    groups |-> {}],
    [tags |-> {},         groups |-> {"leads", "team"}] }

\* the targeting rule of the large mailing: more recipients than one batch
MassTarget == [tags |-> {"mass"}, groups |-> {}]

Digits == {"0", "1", "2", "3", "4", "5", "6", "7", "8", "9"}

IsDigit(c) == c \in Digits

\* CampaignService._clean_phone: re.sub(r'\D', '', phone), None for an empty phone
_clean_phone(phone) ==
  IF phone = <<>> THEN None ELSE SelectSeq(phone, IsDigit)

\* truthiness of the value _clean_phone returns
Truthy(clean) == clean # None /\ clean # <<>>

\* qs_filter of _populate_recipients: the set of tags the Q object matches
QsFilterTags(target) ==
  target.tags
    \cup (IF "leads" \in target.groups /\ "lead" \in SystemTags THEN {"lead"} ELSE {})
    \cup (IF "supporters" \in target.groups /\ "apoiador" \in SystemTags THEN {"apoiador"} ELSE {})

\* a queryset without the consent filter
SupporterMatchesAnyConsent(s, target) ==
  /\ s.phone # <<>>
  /\ s.tags \cap QsFilterTags(target) # {}

\* Supporter.objects.filter(whatsapp_opt_in=True).exclude(phone='').filter(qs_filter)
SupporterMatches(s, target) ==
  /\ s.whatsapp_opt_in
  /\ s.phone # <<>>
  /\ s.tags \cap QsFilterTags(target) # {}

\* position of a key in the recipients map, 0 when absent
RECURSIVE KeyIndex(_, _, _)
KeyIndex(map, key, i) ==
  IF i > Len(map) THEN 0
  ELSE IF map[i].key = key THEN i
  ELSE KeyIndex(map, key, i + 1)

\* a recipients list that takes every matched record as a new entry
MapAppend(map, entry) == Append(map, entry)

\* recipients_map[key] = value (a dict keeps the position of an existing key)
MapPut(map, entry) ==
  LET k == KeyIndex(map, entry.key, 1) IN
    IF k = 0 THEN Append(map, entry) ELSE [map EXCEPT ![k] = entry]

\* the loop over the matched supporters (campaign_service.py 74-81)
RECURSIVE AddSupporters(_, _, _)
AddSupporters(map, target, i) ==
  IF i > Len(Supporters) THEN map
  ELSE LET s     == Supporters[i]
           clean == _clean_phone(s.phone)
       IN IF SupporterMatches(s, target) /\ Truthy(clean)
            THEN AddSupporters(
                   MapPut(map, [key |-> clean, phone |-> s.phone, supporter |-> s.id]),
                   target, i + 1)
            ELSE AddSupporters(map, target, i + 1)

\* 'supporter': None -- the null foreign key of an item without a contact
NoSupporter == 0

\* the loop over the team members (campaign_service.py 130-146)
RECURSIVE AddTeam(_, _)
AddTeam(map, i) ==
  IF i > Len(TeamMembers) THEN map
  ELSE LET u     == TeamMembers[i]
           clean == _clean_phone(u.phone)
       IN IF u.is_active /\ u.phone # <<>> /\ Truthy(clean) /\ KeyIndex(map, clean, 1) = 0
            THEN AddTeam(Append(map, [key |-> clean, phone |-> u.phone, supporter |-> NoSupporter]), i + 1)
            ELSE AddTeam(map, i + 1)

\* recipients_map of _populate_recipients, in insertion order
RecipientsMap(target) ==
  LET afterSupporters ==
        IF QsFilterTags(target) # {} THEN AddSupporters(<<>>, target, 1) ELSE <<>>
  IN IF "team" \in target.groups THEN AddTeam(afterSupporters, 1) ELSE afterSupporters

\* a population that creates whatever was resolved, without the two checks
_populate_recipients_unchecked(target) ==
  [error |-> None,
   items |-> [k \in 1..Len(RecipientsMap(target)) |->
                [supporter       |-> RecipientsMap(target)[k].supporter,
                 recipient_phone |-> RecipientsMap(target)[k].phone,
                 status          |-> PENDING,
                 message_id      |-> None,
                 sent_at         |-> FALSE,
                 error_message   |-> ""]]]

\* the outcome of _populate_recipients: an error name, or the items to create
_populate_recipients(target) ==
  IF target.tags = {} /\ target.groups = {}
    THEN [error |-> "NoTargetSelected", items |-> <<>>]
  ELSE IF RecipientsMap(target) = <<>>
    THEN [error |-> "NoRecipientsFound", items |-> <<>>]
  ELSE [error |-> None,
        items |-> [k \in 1..Len(RecipientsMap(target)) |->
                     [supporter       |-> RecipientsMap(target)[k].supporter,
                      recipient_phone |-> RecipientsMap(target)[k].phone,
                      status          |-> PENDING,
                      message_id      |-> None,
                      sent_at         |-> FALSE,
                      error_message   |-> ""]]]


\* ------------------------------------------------------------------------
\* The gateway (external collaborator): what one send call may return
\* ------------------------------------------------------------------------
MsgIds == {"m1", "m2"}

\* response of send_text_sync / send_media_sync: a dict whose key.id is the
\* message id (None when it cannot be extracted), or an exception with its text
GatewayResponses ==
  { [ok |-> TRUE, id |-> m, error |-> ""] : m \in MsgIds \cup {None} }
    \cup { [ok |-> FALSE, id |-> None, error |-> "gateway error"] }

\* ------------------------------------------------------------------------
\* State
\* ------------------------------------------------------------------------
VARIABLES
  target,     \* the campaign's targeting rule (target_tags, target_groups)
  camp,       \* the stored Campaign row
  items,      \* the stored CampaignItem rows of the campaign, by primary key
  sendCount,  \* per item: number of gateway send calls made for it
  queue,      \* process_campaign_batch activations waiting in the 'campaigns' queue
  wk,         \* per worker: position in process_campaign_batch and its locals
  req,        \* per request handler: position in the view and the campaign it loaded
  issued,     \* number of start / pause requests received
  faults,     \* number of worker losses
  http,       \* the last HTTP response returned
  resumed,    \* whether a start has taken the campaign out of PAUSED
  issuedIds,  \* message ids the gateway has returned for sends it accepted
  logs,       \* the stored WebhookLog rows, by primary key
  wq,         \* per WebhookLog: process_webhook jobs waiting in the 'webhooks' queue
  rj,         \* per reconciler: position in process_webhook and the rows it loaded
  applied,    \* per WebhookLog: number of counter increments made on its behalf
  posted,     \* number of webhook requests received
  session,    \* per WhatsAppSession row: its status, phone number and health flag
  messages,   \* the stored Message rows (messages sent outside campaigns), by primary key
  sessions    \* the WhatsAppSession rows of all tenant partitions

dispatchVars == << target, camp, items, sendCount, queue, wk, req, issued, faults, http, resumed >>
hookVars     == << issuedIds, logs, wq, rj, applied, posted, session, messages, sessions >>
vars == << dispatchVars, hookVars >>

IdleWorker  == [pc |-> "idle", batch |-> <<>>, i |-> 0, resp |-> None]
IdleHandler == [pc |-> "idle", snap |-> None]
NoResponse  == [op |-> None, code |-> 0, error |-> None]
IdleReconciler ==
  [pc |-> "idle", log |-> 0, item |-> 0, itemStatus |-> None, campaign |-> None,
   session |-> None]

NewCampaign ==
  [status |-> DRAFT, total_recipients |-> 0, messages_sent |-> 0,
   messages_delivered |-> 0, messages_read |-> 0, messages_failed |-> 0,
   started_at |-> FALSE, completed_at |-> FALSE]

\* WhatsAppSession.Status and the field defaults of a new row
S_DISCONNECTED == "disconnected"
S_CONNECTING   == "connecting"
S_CONNECTED    == "connected"

NewSession == [status |-> S_DISCONNECTED, phone_number |-> "", is_healthy |-> FALSE]

\* Message rows of the tenant: one known by its WhatsApp id, one known only
\* by its external (gateway) id; both were sent outside any campaign
DirectMessages ==
  << [whatsapp_message_id |-> "w1", external_id |-> "",   status |-> SENT],
     [whatsapp_message_id |-> "",   external_id |-> "e1", status |-> SENT] >>

\* Client rows of the public schema, in the order of Client.Meta.ordering
Tenants ==
  << [schema_name |-> "alpha", is_active |-> TRUE],
     [schema_name |-> "beta",  is_active |-> TRUE],
     [schema_name |-> "gamma", is_active |-> FALSE] >>

\* WhatsAppSession rows of all partitions; the campaign lives in "beta"
\* and sends through "voxpop-beta"
SessionRows ==
  { [tenant |-> "alpha", instance_name |-> "alpha-old",   is_active |-> FALSE],
    [tenant |-> "beta",  instance_name |-> "voxpop-beta", is_active |-> TRUE],
    [tenant |-> "gamma", instance_name |-> "gamma-1",     is_active |-> TRUE] }

\* a WhatsAppSession row is identified by its partition and its instance name
SessionKey(tenant, instance_name) == << tenant, instance_name >>

\* the session the campaign sends through
CampaignSession == SessionKey("beta", "voxpop-beta")

\* Campaign.Status.choices
CampaignStatuses == {DRAFT, SCHEDULED, RUNNING, PAUSED, COMPLETED, CANCELLED, C_FAILED}

\* the state after construction, for a campaign with one of the given rules
\* whose stored status is one of the given ones (a campaign is created in
\* DRAFT; the generic update endpoint of CampaignViewSet accepts any status)
InitFrom(rules, statuses) ==
  /\ target \in rules
  /\ camp \in { [NewCampaign EXCEPT !.status = st] : st \in statuses }
  /\ items = <<>>
  /\ sendCount = <<>>
  /\ queue = 0
  /\ wk = [w \in Workers |-> IdleWorker]
  /\ req = [h \in RacingHandlers |-> IdleHandler]
  /\ issued = 0
  /\ faults = 0
  /\ http = NoResponse
  /\ resumed = FALSE
  /\ issuedIds = {}
  /\ logs = <<>>
  /\ wq = <<>>
  /\ rj = [j \in Reconcilers |-> IdleReconciler]
  /\ applied = <<>>
  /\ posted = 0
  /\ session = [k \in { SessionKey(r.tenant, r.instance_name) : r \in SessionRows } |-> NewSession]
  /\ messages = DirectMessages
  /\ sessions = SessionRows

\* the state after construction, for a new campaign with one of the given rules
InitWith(rules) == InitFrom(rules, {DRAFT})

Init == InitWith(Targets)

ItemIds == 1..Len(items)

ItemsIn(status) == { k \in ItemIds : items[k].status = status }

\* ------------------------------------------------------------------------
\* Campaign control surface: CampaignViewSet.start + CampaignService.start_campaign
\* ------------------------------------------------------------------------

\* a start without the guards for a campaign that is already RUNNING
StartDecisionUnguarded(st) ==
  IF st \notin {DRAFT, PAUSED, C_FAILED, RUNNING} THEN "invalid" ELSE "start"

\* what a start request does with a campaign it loaded in status st:
\* the view rejects every state but DRAFT, PAUSED, FAILED (views.py 49);
\* the service returns at once for RUNNING (campaign_service.py 21)
StartDecision(st) ==
  IF st = RUNNING THEN "noop"
  ELSE IF st \notin {DRAFT, PAUSED, C_FAILED} THEN "invalid"
  ELSE "start"

\* request handlers are interchangeable: a request goes to the first idle one
FirstIdleHandler(h) ==
  req[h].pc = "idle" /\ \A g \in RacingHandlers : g < h => req[g].pc # "idle"

\* self.get_object() and the status checks
StartRead(h) ==
  /\ FirstIdleHandler(h)
  /\ issued' = issued + 1
  /\ IF StartDecision(camp.status) = "start"
       THEN /\ req' = [req EXCEPT ![h] = [pc |-> "start", snap |-> camp]]
            /\ UNCHANGED http
       ELSE /\ http' = [op |-> "start", code |-> 400, error |-> "InvalidState"]
            /\ UNCHANGED req
  /\ UNCHANGED << target, resumed, camp, items, sendCount, queue, wk, faults, hookVars >>

\* the transaction of start_campaign and the first process_campaign_batch.delay
StartCommit(h) ==
  /\ req[h].pc = "start"
  /\ LET snap == req[h].snap
         pop  == IF snap.status = DRAFT
                   THEN _populate_recipients(target)
                   ELSE [error |-> None, items |-> <<>>]
     IN IF pop.error # None
          THEN \* the exception rolls the transaction back; the view answers 500
               /\ http' = [op |-> "start", code |-> 500, error |-> pop.error]
               /\ UNCHANGED << camp, items, sendCount, queue, resumed >>
          ELSE /\ items' = items \o pop.items
               /\ sendCount' = sendCount \o [k \in 1..Len(pop.items) |-> 0]
               /\ camp' = [snap EXCEPT
                             !.status = RUNNING,
                             !.total_recipients =
                                IF snap.status = DRAFT THEN Len(pop.items)
                                                       ELSE snap.total_recipients,
                             !.started_at = TRUE]
               /\ queue' = queue + 1
               /\ resumed' = (resumed \/ snap.status = PAUSED)
               /\ http' = [op |-> "start", code |-> 200, error |-> None]
  /\ req' = [req EXCEPT ![h] = IdleHandler]
  /\ UNCHANGED << target, wk, issued, faults, hookVars >>

\* CampaignViewSet.pause: self.get_object() and the status check
PauseRead(h) ==
  /\ FirstIdleHandler(h)
  /\ issued' = issued + 1
  /\ IF camp.status = RUNNING
       THEN /\ req' = [req EXCEPT ![h] = [pc |-> "pause", snap |-> camp]]
            /\ UNCHANGED http
       ELSE /\ http' = [op |-> "pause", code |-> 400, error |-> "InvalidState"]
            /\ UNCHANGED req
  /\ UNCHANGED << target, resumed, camp, items, sendCount, queue, wk, faults, hookVars >>

\* CampaignViewSet.pause: campaign.status = PAUSED; campaign.save()
PauseCommit(h) ==
  /\ req[h].pc = "pause"
  /\ camp' = [req[h].snap EXCEPT !.status = PAUSED]
  /\ http' = [op |-> "pause", code |-> 200, error |-> None]
  /\ req' = [req EXCEPT ![h] = IdleHandler]
  /\ UNCHANGED << target, resumed, items, sendCount, queue, wk, issued, faults, hookVars >>

\* ------------------------------------------------------------------------
\* Dispatch scheduler: process_campaign_batch
\* ------------------------------------------------------------------------

\* rows locked by the open claim transactions of the other workers
LockedByOthers(w) ==
  UNION { { wk[v].batch[n] : n \in 1..Len(wk[v].batch) } :
          v \in { u \in Workers \ {w} : wk[u].pc = "commit" } }

RECURSIVE Ascending(_)
Ascending(S) ==
  IF S = {} THEN <<>>
  ELSE LET m == CHOOSE x \in S : \A y \in S : x <= y
       IN <<m>> \o Ascending(S \ {m})

\* queryset[:n]
FirstN(seq, n) == IF Len(seq) <= n THEN seq ELSE SubSeq(seq, 1, n)

\* a claim that selects nothing
ClaimableStatusesNone == {}

\* a claim that also takes the items another activation left QUEUED
ClaimableStatusesWithQueued == {PENDING, QUEUED}

\* the statuses of the items a claim selects (tasks.py 41-44)
ClaimableStatuses == {PENDING}

\* a claim query that neither locks the rows it selects nor skips locked ones
ClaimQueryWithoutLocks(w) ==
  FirstN(Ascending({ k \in ItemIds : items[k].status \in ClaimableStatuses }), BATCH_SIZE)

\* filter(campaign=campaign, status=PENDING).select_for_update(skip_locked=True)[:BATCH_SIZE]
ClaimQuery(w) ==
  FirstN(Ascending({ k \in ItemIds : items[k].status \in ClaimableStatuses } \ LockedByOthers(w)),
         BATCH_SIZE)

\* workers of a pool are interchangeable: work goes to the first idle one
FirstIdleWorker(w) == wk[w].pc = "idle" /\ \A v \in Workers : v < w => wk[v].pc # "idle"

\* an activation that goes on whatever the campaign's status is
ActivationProceedsAlways(st) == TRUE

\* whether an activation goes on to the claim, given the status it loaded
\* (lines 29-31)
ActivationProceeds(st) == st = RUNNING

\* lines 23-45: a worker takes an activation, checks the campaign's status,
\* opens the claim transaction and locks the rows it selects
TaskBegin(w) ==
  /\ FirstIdleWorker(w)
  /\ queue > 0
  /\ queue' = queue - 1
  /\ wk' = [wk EXCEPT ![w] = IF ActivationProceeds(camp.status)
                               THEN [pc |-> "commit", batch |-> ClaimQuery(w), i |-> 1, resp |-> None]
                               ELSE IdleWorker]
  /\ UNCHANGED << target, resumed, camp, items, sendCount, req, issued, faults, http, hookVars >>

\* lines 47-50: the claimed rows become QUEUED and the transaction commits
ClaimCommit(w) ==
  /\ wk[w].pc = "commit"
  /\ items' = [k \in ItemIds |->
                 IF \E n \in 1..Len(wk[w].batch) : wk[w].batch[n] = k
                   THEN [items[k] EXCEPT !.status = QUEUED]
                   ELSE items[k]]
  /\ wk' = [wk EXCEPT ![w].pc = IF wk[w].batch = <<>> THEN "empty" ELSE "loop"]
  /\ UNCHANGED << target, resumed, camp, sendCount, queue, req, issued, faults, http, hookVars >>

\* a completion by campaign.save() of an object whose counters are those of
\* a campaign not yet sent
MarkCompletedBySave(c) ==
  [c EXCEPT !.status = COMPLETED, !.completed_at = TRUE,
            !.messages_sent = 0, !.messages_failed = 0]

\* Campaign.objects.filter(pk=..).update(status=COMPLETED, completed_at=now)
MarkCompleted(c) == [c EXCEPT !.status = COMPLETED, !.completed_at = TRUE]

\* an empty claim that always completes the campaign
CompletesOnEmptyClaimAlways(pending_count) == TRUE

\* whether an activation that claimed nothing completes the campaign, given
\* the count of PENDING items (lines 55-60)
CompletesOnEmptyClaim(pending_count) == pending_count = 0

\* lines 52-71: nothing was claimed
EmptyBatch(w) ==
  /\ wk[w].pc = "empty"
  /\ IF CompletesOnEmptyClaim(Cardinality(ItemsIn(PENDING)))
       THEN camp' = MarkCompleted(camp) /\ UNCHANGED queue
       ELSE queue' = queue + 1 /\ UNCHANGED camp
  /\ wk' = [wk EXCEPT ![w] = IdleWorker]
  /\ UNCHANGED << target, resumed, items, sendCount, req, issued, faults, http, hookVars >>

\* a loop that checks the status only at the start of the activation
KeepsSendingUnchecked(st) == TRUE

\* whether the loop goes on to send the next item, given the refreshed status
\* (lines 78-80)
KeepsSending(st) == st = RUNNING

\* lines 76-80: campaign.refresh_from_db() and the pause check before each item
LoopCheck(w) ==
  /\ wk[w].pc = "loop"
  /\ wk' = [wk EXCEPT ![w].pc = IF KeepsSending(camp.status) THEN "send" ELSE "after"]
  /\ UNCHANGED << target, resumed, camp, items, sendCount, queue, req, issued, faults, http, hookVars >>

\* lines 82-130: the delay and the gateway call for the current item, with
\* the gateway answering r
SendItemWith(w, r) ==
  /\ wk[w].pc = "send"
  /\ wk' = [wk EXCEPT ![w].pc = "save", ![w].resp = r]
  /\ issuedIds' = IF r.id # None THEN issuedIds \cup {r.id} ELSE issuedIds
  /\ sendCount' = [sendCount EXCEPT ![wk[w].batch[wk[w].i]] = @ + 1]
  /\ UNCHANGED << target, resumed, camp, items, queue, req, issued, faults, http,
                  logs, wq, rj, applied, posted, session, messages, sessions >>

SendItem(w) == \E r \in GatewayResponses : SendItemWith(w, r)

\* a loop that a send error takes out of the batch
AfterItemAborting(ok, more) == IF ok /\ more THEN "loop" ELSE "after"

\* where the loop goes after an item: the except clause (lines 167-175)
\* swallows a send error, so the for loop moves on to the next item
AfterItem(ok, more) == IF more THEN "loop" ELSE "after"

\* a send that counts as failed when the response carries no message id
SendSucceededOnlyWithId(r) == r.ok /\ r.id # None

\* whether the item is handled by the success path (lines 132-165): the
\* gateway call returned without an exception, whatever the response holds
SendSucceeded(r) == r.ok

\* lines 140-156: the message_id of the item object after the extraction:
\* response['key']['id'] when it is there and not empty, else the value the
\* object was loaded with
ExtractedId(r, loaded) == IF r.id # None THEN r.id ELSE loaded

\* lines 132-175: the item's outcome and the campaign's counter
SaveItem(w) ==
  /\ wk[w].pc = "save"
  /\ LET k == wk[w].batch[wk[w].i]
         r == wk[w].resp
     IN IF SendSucceeded(r)
          THEN /\ items' = [items EXCEPT ![k].status = SENT,
                                         ![k].sent_at = TRUE,
                                         ![k].message_id = ExtractedId(r, items[k].message_id)]
               /\ camp' = [camp EXCEPT !.messages_sent = @ + 1]
          ELSE /\ items' = [items EXCEPT ![k].status = FAILED,
                                         ![k].error_message = r.error]
               /\ camp' = [camp EXCEPT !.messages_failed = @ + 1]
  /\ wk' = [wk EXCEPT ![w].pc   = AfterItem(wk[w].resp.ok, wk[w].i < Len(wk[w].batch)),
                      ![w].i    = @ + 1,
                      ![w].resp = None]
  /\ UNCHANGED << target, resumed, sendCount, queue, req, issued, faults, http, hookVars >>

\* lines 177-192: re-arm, or complete the campaign
AfterBatch(w) ==
  /\ wk[w].pc = "after"
  /\ IF ItemsIn(PENDING) # {}
       THEN queue' = queue + 1 /\ UNCHANGED camp
       ELSE camp' = MarkCompleted(camp) /\ UNCHANGED queue
  /\ wk' = [wk EXCEPT ![w] = IdleWorker]
  /\ UNCHANGED << target, resumed, items, sendCount, req, issued, faults, http, hookVars >>

\* the worker is lost in the middle of an activation: an open claim
\* transaction rolls back, and the unacknowledged task is delivered again
\* (CELERY_TASK_ACKS_LATE, CELERY_TASK_REJECT_ON_WORKER_LOST)
WorkerLost(w) ==
  /\ wk[w].pc # "idle"
  /\ faults' = faults + 1
  /\ wk' = [wk EXCEPT ![w] = IdleWorker]
  /\ queue' = queue + 1
  /\ UNCHANGED << target, resumed, camp, items, sendCount, req, issued, http, hookVars >>

\* ------------------------------------------------------------------------
\* Webhook ingestion: WebhookView.post
\* ------------------------------------------------------------------------

\* instance names webhook requests arrive for
InstanceNames == {"voxpop-beta", "ghost"}

\* data.status values of the messages.update events the gateway posts
EventStatuses == {"DELIVERY_ACK", "READ", "FAILED", "SERVER_ACK"}

RECURSIVE ScanTenants(_, _)
ScanTenants(instance_name, t) ==
  IF t > Len(Tenants) THEN None
  ELSE IF /\ Tenants[t].is_active
          /\ \E r \in sessions    : /\ r.tenant = Tenants[t].schema_name
                                    /\ r.instance_name = instance_name
                                    /\ r.is_active
         THEN Tenants[t].schema_name
  ELSE ScanTenants(instance_name, t + 1)

\* a lookup whose query lost the instance_name filter
get_session_any_instance(instance_name) ==
  IF \E t \in 1..Len(Tenants), r \in sessions :
       Tenants[t].is_active /\ r.tenant = Tenants[t].schema_name /\ r.is_active
    THEN (CHOOSE r \in sessions :
            r.is_active /\ \E t \in 1..Len(Tenants) :
                             Tenants[t].is_active /\ r.tenant = Tenants[t].schema_name).tenant
    ELSE None

\* the tenant whose partition holds the active session of that name, or None
get_session_by_instance_name(instance_name) == ScanTenants(instance_name, 1)

\* a messages.update payload: data.status and data.keyId
MessageUpdate(status, keyId) ==
  [event_type |-> "messages.update", status |-> status, keyId |-> keyId,
   data_state |-> None, top_state |-> None]

\* a connection.update payload: data.state, and the top-level state key
\* (None when the payload has none)
ConnectionUpdate(data_state, top_state) ==
  [event_type |-> "connection.update", status |-> None, keyId |-> None,
   data_state |-> data_state, top_state |-> top_state]

\* data.state values of the connection.update events the gateway posts
ConnectionStates == {"open", "close", "connecting"}

\* connection.update payloads, with and without a top-level state key
ConnectionEvents ==
  { ConnectionUpdate(s, t) : s \in ConnectionStates, t \in {None} } \cup
  { ConnectionUpdate(s, s) : s \in ConnectionStates }

\* f"+{phone}" for the data.connection.wid.user of an "open" event
ConnectedPhone == "+5511900000001"

\* WebhookView._process_event_sync (lines 130-168): the values the session
\* object holds when the view saves it
_process_event_sync(s, event) ==
  IF event.event_type = "connection.update"
    THEN CASE event.data_state = "open" ->
                [s EXCEPT !.status = S_CONNECTED, !.phone_number = ConnectedPhone]
           [] event.data_state = "close" ->
                [s EXCEPT !.status = S_DISCONNECTED, !.phone_number = ""]
           [] event.data_state = "connecting" ->
                [s EXCEPT !.status = S_CONNECTING]
           [] OTHER -> s
    ELSE s

\* whether the synchronous processing of the event writes to the database,
\* and so can raise (messages.update is "pass", lines 162-164)
SyncWrites(event) == event.event_type = "connection.update"

\* a view that lets an exception of the synchronous processing escape
PostResponseCodeUncaught(sync_raises) == IF sync_raises THEN 500 ELSE 202

\* the status code of the view once the WebhookLog is stored: the exception
\* of _process_event_sync is caught and logged (lines 119-122), and the
\* view returns 202 (line 128)
PostResponseCode(sync_raises) == 202

\* POST /webhook/{instance_name}/ carrying the event; sync_raises: the
\* session.save() of the synchronous processing raises
WebhookPost(instance_name, event, sync_raises) ==
  /\ sync_raises => SyncWrites(event)
  /\ posted' = posted + 1
  /\ IF get_session_by_instance_name(instance_name) = None
       THEN /\ ~sync_raises
            /\ http' = [op |-> "webhook", code |-> 404, error |-> "not found"]
            /\ UNCHANGED << logs, wq, applied, session >>
       ELSE /\ logs' = Append(logs, [tenant |-> get_session_by_instance_name(instance_name),
                                     instance_name |-> instance_name,
                                     event_type |-> event.event_type,
                                     status |-> event.status, keyId |-> event.keyId,
                                     data_state |-> event.data_state,
                                     top_state |-> event.top_state,
                                     processed |-> FALSE, error |-> ""])
            /\ session' =
                 IF sync_raises THEN session
                 ELSE [session EXCEPT
                         ![SessionKey(get_session_by_instance_name(instance_name), instance_name)] =
                            _process_event_sync(@, event)]
            /\ wq' = Append(wq, 1)
            /\ applied' = Append(applied, 0)
            /\ http' = [op |-> "webhook", code |-> PostResponseCode(sync_raises),
                        error |-> None]
  /\ UNCHANGED << target, resumed, camp, items, sendCount, queue, wk, req, issued, faults,
                  issuedIds, rj, messages, sessions >>

\* WebhookAuthenticationMiddleware._validate_signature: the reason a request
\* fails authentication, None when it is authentic.  signature_ok: the HMAC
\* header matches the session's secret; timestamp_ok: the timestamp header
\* is within 300 s.
_validate_signature(signature_ok, timestamp_ok) ==
  IF ~signature_ok THEN "Assinatura invalida"
  ELSE IF ~timestamp_ok THEN "Timestamp muito antigo"
  ELSE None

\* a request pipeline that runs the signature check in front of the view
RejectedByValidation(signature_ok, timestamp_ok) ==
  _validate_signature(signature_ok, timestamp_ok) # None

\* whether the request is turned away before it reaches WebhookView:
\* settings.MIDDLEWARE does not list WebhookAuthenticationMiddleware, and
\* the view has permission_classes = [AllowAny], authentication_classes = []
RejectedBeforeView(signature_ok, timestamp_ok) == FALSE

\* one webhook request on its way through the middleware chain to the view
WebhookRequest(signature_ok, timestamp_ok, instance_name, event, sync_raises) ==
  IF RejectedBeforeView(signature_ok, timestamp_ok)
    THEN /\ ~sync_raises
         /\ posted' = posted + 1
         /\ http' = [op |-> "webhook", code |-> 401, error |-> "AUTHENTICATION_FAILED"]
         /\ UNCHANGED << target, resumed, camp, items, sendCount, queue, wk, req, issued,
                         faults, issuedIds, logs, wq, rj, applied, session, messages,
                         sessions >>
    ELSE WebhookPost(instance_name, event, sync_raises)

\* ------------------------------------------------------------------------
\* Session provisioning: WhatsAppSessionViewSet.create
\* ------------------------------------------------------------------------

\* values f"voxpop_{uuid.uuid4().hex[:8]}" can take (two of the 16^8)
GeneratedNames == {"voxpop_0000000a", "voxpop_0000000b"}

\* schema names of the tenants whose operators can reach the API
ActiveTenants == { Tenants[t].schema_name : t \in { n \in 1..Len(Tenants) : Tenants[n].is_active } }

\* the rows a new row is checked against: instance_name is unique=True on a
\* table that exists once per tenant schema
UniquenessScope(rows, tenant) == { r \in rows : r.tenant = tenant }

\* POST /sessions/ by an operator of the tenant, with the generated name:
\* the row is inserted unless the schema's unique index rejects it
CreateSession(tenant, instance_name) ==
  /\ issued' = issued + 1
  /\ IF \E r \in UniquenessScope(sessions, tenant) : r.instance_name = instance_name
       THEN /\ http' = [op |-> "create_session", code |-> 500, error |-> "IntegrityError"]
            /\ UNCHANGED << sessions, session >>
       ELSE /\ sessions' = sessions \cup { [tenant |-> tenant, instance_name |-> instance_name,
                                             is_active |-> TRUE] }
            /\ session' = [k \in DOMAIN session \cup {SessionKey(tenant, instance_name)} |->
                             IF k \in DOMAIN session THEN session[k] ELSE NewSession]
            /\ http' = [op |-> "create_session", code |-> 201, error |-> None]
  /\ UNCHANGED << target, resumed, camp, items, sendCount, queue, wk, req, faults,
                  issuedIds, logs, wq, rj, applied, posted, messages >>

\* ------------------------------------------------------------------------
\* Status reconciliation: process_webhook and _handle_messages_update
\* ------------------------------------------------------------------------

\* CampaignItem.objects.filter(message_id=message_id).first(): lowest primary key, 0 if none
FindItem(message_id) ==
  IF \E k \in ItemIds : items[k].message_id = message_id
    THEN CHOOSE k \in ItemIds :
           /\ items[k].message_id = message_id
           /\ \A l \in ItemIds : items[l].message_id = message_id => k <= l
    ELSE 0

\* a handler that puts a message the gateway reports as failed back in line
NewItemStatusRequeueingFailed(status, loaded) ==
  CASE status = "DELIVERY_ACK" -> DELIVERED
    [] status = "READ"         -> READ
    [] status = "FAILED"       -> PENDING
    [] status = "SERVER_ACK"   -> IF loaded = PENDING THEN QUEUED ELSE loaded
    [] OTHER                   -> loaded

\* the status _handle_messages_update leaves on the item object it loaded
NewItemStatus(status, loaded) ==
  CASE status = "DELIVERY_ACK" -> DELIVERED
    [] status = "READ"         -> READ
    [] status = "FAILED"       -> FAILED
    [] status = "SERVER_ACK"   -> IF loaded = PENDING THEN QUEUED ELSE loaded
    [] OTHER                   -> loaded

\* whether the handler stamps sent_at on the item it loaded and saves it
\* (lines 189-194: a server-ack for an item loaded as PENDING)
StampsSentAt(status, loaded) == status = "SERVER_ACK" /\ loaded = PENDING

\* a handler that books a delivery-ack on the read counter
CounterOfDeliveryAsRead(status) ==
  CASE status = "DELIVERY_ACK" -> "messages_read"
    [] status = "READ"         -> "messages_read"
    [] status = "FAILED"       -> "messages_failed"
    [] OTHER                   -> None

\* the campaign counter _handle_messages_update increments for a status
CounterOf(status) ==
  CASE status = "DELIVERY_ACK" -> "messages_delivered"
    [] status = "READ"         -> "messages_read"
    [] status = "FAILED"       -> "messages_failed"
    [] OTHER                   -> None

\* whether process_webhook goes on to handle the entry it loaded
\* (webhook_tasks.py 24-30: every entry found is handled)
ShouldProcess(log) == TRUE

\* the job at the head of the 'webhooks' queue, 0 if the queue is empty
HeadJob ==
  IF \E n \in 1..Len(wq) : wq[n] > 0
    THEN CHOOSE n \in 1..Len(wq) : wq[n] > 0 /\ \A m \in 1..Len(wq) : wq[m] > 0 => n <= m
    ELSE 0

\* _handle_connection_update (lines 66-88): the values the session object
\* loaded with the entry holds when the handler saves it; the state is read
\* from the payload's top level and is '' when the key is absent
_handle_connection_update(s, event) ==
  LET state == IF event.top_state = None THEN "" ELSE event.top_state
  IN CASE state \in {"open", "connected"} ->
            [s EXCEPT !.status = S_CONNECTED, !.is_healthy = TRUE]
       [] state \in {"close", "disconnected"} ->
            [s EXCEPT !.status = S_DISCONNECTED, !.is_healthy = FALSE]
       [] state = "connecting" ->
            [s EXCEPT !.status = S_CONNECTING]
       [] OTHER -> s

\* Message.objects.get(whatsapp_message_id=..), then get(external_id=..)
\* (lines 216-224): the row's primary key, 0 if neither matches
FindMessage(rows, message_id) ==
  IF \E i \in 1..Len(rows) : rows[i].whatsapp_message_id = message_id
    THEN CHOOSE i \in 1..Len(rows) : rows[i].whatsapp_message_id = message_id
  ELSE IF \E i \in 1..Len(rows) : rows[i].external_id = message_id
    THEN CHOOSE i \in 1..Len(rows) : rows[i].external_id = message_id
  ELSE 0

\* the status the fallback leaves on the Message it found (lines 226-238)
MessageStatusFor(status, stored) ==
  CASE status \in {"DELIVERED", "DELIVERY_ACK", "SERVER_ACK"} -> DELIVERED
    [] status \in {"READ", "PLAYED"}                           -> READ
    [] status \in {"ERROR", "FAILED"}                          -> FAILED
    [] OTHER                                                   -> stored

\* a fallback that fabricates a Message for an id it does not know
UpdateOrCreateMessage(rows, message_id, status) ==
  LET i == FindMessage(rows, message_id)
  IN IF i = 0
       THEN Append(rows, [whatsapp_message_id |-> message_id, external_id |-> "",
                          status |-> MessageStatusFor(status, SENT)])
       ELSE [rows EXCEPT ![i].status = MessageStatusFor(status, rows[i].status)]

\* lines 212-238: the Message rows after the fallback for an event that
\* matched no CampaignItem; with no matching Message nothing is written
UpdateMessage(rows, message_id, status) ==
  LET i == FindMessage(rows, message_id)
  IN IF i = 0 THEN rows
     ELSE [rows EXCEPT ![i].status = MessageStatusFor(status, rows[i].status)]

\* process_webhook up to the handler's writes: the entry is loaded; for a
\* message event the matching item and its campaign are loaded (up to line
\* 150); with no matching item the Message fallback runs, and with no
\* matching record at all the event is dropped; for a connection event the
\* entry's session is loaded
ReconBegin(j) ==
  /\ rj[j].pc = "idle"
  /\ HeadJob # 0
  /\ LET n == HeadJob
         k == FindItem(logs[n].keyId)
     IN /\ wq' = [wq EXCEPT ![n] = @ - 1]
        /\ IF ~ShouldProcess(logs[n])
             THEN /\ rj' = [rj EXCEPT ![j] = [IdleReconciler EXCEPT !.pc = "ack", !.log = n]]
                  /\ UNCHANGED << logs, messages >>
           ELSE IF logs[n].event_type = "connection.update"
             THEN /\ rj' = [rj EXCEPT ![j] = [IdleReconciler EXCEPT !.pc = "apply", !.log = n,
                                                                   !.session =
                                                      session[SessionKey(logs[n].tenant,
                                                                         logs[n].instance_name)]]]
                  /\ UNCHANGED << logs, messages >>
           ELSE IF k = 0
             THEN /\ rj' = [rj EXCEPT ![j] = [IdleReconciler EXCEPT !.pc = "ack", !.log = n]]
                  /\ logs' = [logs EXCEPT ![n].processed = TRUE]
                  /\ messages' = UpdateMessage(messages, logs[n].keyId, logs[n].status)
             ELSE /\ rj' = [rj EXCEPT ![j] = [pc |-> "apply", log |-> n, item |-> k,
                                              itemStatus |-> items[k].status,
                                              campaign |-> camp, session |-> None]]
                  /\ UNCHANGED << logs, messages >>
  /\ UNCHANGED << dispatchVars, issuedIds, applied, posted, session, sessions >>

\* lines 152-199 and mark_as_processed: the counter of the loaded campaign
\* object is saved, then the item's status, then the entry's processed flag.
\* For a connection event (line 89) the loaded session object is saved
\* whole; when that save raises, process_webhook's except clause (lines
\* 54-56) records the error on the entry.
ReconApply(j) ==
  /\ rj[j].pc = "apply"
  /\ LET n == rj[j].log
         k == rj[j].item
         c == CounterOf(logs[n].status)
     IN IF logs[n].event_type = "connection.update"
          THEN /\ \E raises \in BOOLEAN :
                    IF raises
                      THEN /\ logs' = [logs EXCEPT ![n].processed = TRUE,
                                                   ![n].error = "error"]
                           /\ UNCHANGED session
                      ELSE /\ logs' = [logs EXCEPT ![n].processed = TRUE, ![n].error = ""]
                           /\ session' =
                                [session EXCEPT
                                   ![SessionKey(logs[n].tenant, logs[n].instance_name)] =
                                      _handle_connection_update(rj[j].session, logs[n])]
               /\ UNCHANGED << camp, applied, items >>
          ELSE /\ camp' = IF c = None THEN camp
                          ELSE [camp EXCEPT ![c] = rj[j].campaign[c] + 1]
               /\ applied' = IF c = None THEN applied ELSE [applied EXCEPT ![n] = @ + 1]
               /\ items' = [items EXCEPT ![k].status =
                                           NewItemStatus(logs[n].status, rj[j].itemStatus),
                                         ![k].sent_at =
                                           IF StampsSentAt(logs[n].status, rj[j].itemStatus)
                                             THEN TRUE ELSE @]
               /\ logs' = [logs EXCEPT ![n].processed = TRUE]
               /\ UNCHANGED session
  /\ rj' = [rj EXCEPT ![j].pc = "ack"]
  /\ UNCHANGED << target, resumed, sendCount, queue, wk, req, issued, faults, http,
                  issuedIds, wq, posted, messages, sessions >>

\* the task returns and is acknowledged
ReconAck(j) ==
  /\ rj[j].pc = "ack"
  /\ rj' = [rj EXCEPT ![j] = IdleReconciler]
  /\ UNCHANGED << dispatchVars, issuedIds, logs, wq, applied, posted, session, messages,
                  sessions >>

\* the worker is lost before the acknowledgement: the job is delivered again
ReconLost(j) ==
  /\ rj[j].pc # "idle"
  /\ faults' = faults + 1
  /\ wq' = [wq EXCEPT ![rj[j].log] = @ + 1]
  /\ rj' = [rj EXCEPT ![j] = IdleReconciler]
  /\ UNCHANGED << target, resumed, camp, items, sendCount, queue, wk, req, issued, http,
                  issuedIds, logs, applied, posted, session, messages, sessions >>

\* ------------------------------------------------------------------------
\* Specifications
\* ------------------------------------------------------------------------

\* Campaign lifecycle and dispatch: operators start and pause the campaign
\* while two workers run its batch activations and may be lost.
Next ==
  \/ issued < MaxRequests /\ \E h \in Handlers : StartRead(h)
  \/ \E h \in Handlers : StartCommit(h)
  \/ issued < MaxRequests /\ \E h \in Handlers : PauseRead(h)
  \/ \E h \in Handlers : PauseCommit(h)
  \/ \E w \in Workers : TaskBegin(w)
  \/ \E w \in Workers : ClaimCommit(w)
  \/ \E w \in Workers : EmptyBatch(w)
  \/ \E w \in Workers : LoopCheck(w)
  \/ \E w \in Workers : SendItem(w)
  \/ \E w \in Workers : SaveItem(w)
  \/ \E w \in Workers : AfterBatch(w)
  \/ faults < MaxFaults /\ \E w \in Workers : WorkerLost(w)

Spec == Init /\ [][Next]_vars

\* The same, for a campaign found in any stored status when the first
\* request arrives.
ControlInit == InitFrom(Targets, CampaignStatuses)

ControlSpec == ControlInit /\ [][Next]_vars

\* Dispatch and reconciliation together: the campaign is started once and
\* sent by one worker while the gateway posts status events for the
\* messages it accepted, and a reconciler processes the stored entries.
\* Either kind of worker can be lost while it holds a task.  The requests
\* carry a valid signature and timestamp.
HookNext ==
  \/ issued = 0 /\ \E h \in Handlers : StartRead(h)
  \/ \E h \in Handlers : StartCommit(h)
  \/ \E w \in HookWorkers : TaskBegin(w)
  \/ \E w \in HookWorkers : ClaimCommit(w)
  \/ \E w \in HookWorkers : EmptyBatch(w)
  \/ \E w \in HookWorkers : LoopCheck(w)
  \/ \E w \in HookWorkers : SendItem(w)
  \/ \E w \in HookWorkers : SaveItem(w)
  \/ \E w \in HookWorkers : AfterBatch(w)
  \/ faults < MaxFaults /\ \E w \in HookWorkers : WorkerLost(w)
  \/ /\ posted < MaxWebhooks
     /\ \E inst \in InstanceNames, st \in EventStatuses, m \in issuedIds :
          WebhookRequest(TRUE, TRUE, inst, MessageUpdate(st, m), FALSE)
  \/ \E j \in HookReconcilers : ReconBegin(j)
  \/ \E j \in HookReconcilers : ReconApply(j)
  \/ \E j \in HookReconcilers : ReconAck(j)
  \/ faults < MaxFaults /\ \E j \in HookReconcilers : ReconLost(j)

HookSpec == Init /\ [][HookNext]_vars

\* the scheduler has finished the campaign and nothing of it is in flight
DispatchDone ==
  /\ camp.status = COMPLETED
  /\ queue = 0
  /\ \A w \in Workers : wk[w].pc = "idle"

\* The end-to-end run: the campaign is started once, one worker sends it,
\* and the gateway's status events arrive after the scheduler has finished;
\* one reconciler processes them.
E2ENext ==
  \/ issued = 0 /\ \E h \in Handlers : StartRead(h)
  \/ \E h \in Handlers : StartCommit(h)
  \/ \E w \in HookWorkers : TaskBegin(w)
  \/ \E w \in HookWorkers : ClaimCommit(w)
  \/ \E w \in HookWorkers : EmptyBatch(w)
  \/ \E w \in HookWorkers : LoopCheck(w)
  \/ \E w \in HookWorkers : SendItem(w)
  \/ \E w \in HookWorkers : SaveItem(w)
  \/ \E w \in HookWorkers : AfterBatch(w)
  \/ faults < MaxFaults /\ \E w \in HookWorkers : WorkerLost(w)
  \/ /\ posted < MaxWebhooks
     /\ DispatchDone
     /\ \E inst \in InstanceNames, st \in EventStatuses, m \in issuedIds :
          WebhookRequest(TRUE, TRUE, inst, MessageUpdate(st, m), FALSE)
  \/ \E j \in HookReconcilers : ReconBegin(j)
  \/ \E j \in HookReconcilers : ReconApply(j)
  \/ \E j \in HookReconcilers : ReconAck(j)

E2ESpec == Init /\ [][E2ENext]_vars

\* reconcilers of a pool are interchangeable: a job goes to the first idle one
FirstIdleReconciler(j) ==
  rj[j].pc = "idle" /\ \A i \in Reconcilers : i < j => rj[i].pc # "idle"

\* Ingestion and concurrent reconciliation: the campaign is started once and
\* sent by one worker; webhook requests arrive with any signature and
\* timestamp, and two reconcilers process the stored entries side by side.
RaceNext ==
  \/ issued = 0 /\ \E h \in Handlers : StartRead(h)
  \/ \E h \in Handlers : StartCommit(h)
  \/ \E w \in HookWorkers : TaskBegin(w)
  \/ \E w \in HookWorkers : ClaimCommit(w)
  \/ \E w \in HookWorkers : LoopCheck(w)
  \/ \E w \in HookWorkers : SendItem(w)
  \/ \E w \in HookWorkers : SaveItem(w)
  \/ \E w \in HookWorkers : AfterBatch(w)
  \/ /\ posted < MaxWebhooks
     /\ \E inst \in InstanceNames, st \in EventStatuses, m \in issuedIds :
          WebhookRequest(TRUE, TRUE, inst, MessageUpdate(st, m), FALSE)
  \/ \E j \in Reconcilers : FirstIdleReconciler(j) /\ ReconBegin(j)
  \/ \E j \in Reconcilers : ReconApply(j)
  \/ \E j \in Reconcilers : ReconAck(j)

RaceSpec == Init /\ [][RaceNext]_vars

\* Webhook ingestion on its own: requests of every kind, authentic or not,
\* for known and unknown instances, with the synchronous processing failing
\* or not, while one reconciler works through the 'webhooks' queue and may
\* fail or be lost.
IngestIds == {"m1", "w1", "e1"}

IngestEvents ==
  { MessageUpdate(st, m) : st \in EventStatuses, m \in IngestIds } \cup ConnectionEvents

IngestNext ==
  \/ /\ posted < MaxWebhooks
     /\ \E sig \in BOOLEAN, ts \in BOOLEAN, inst \in InstanceNames,
           ev \in IngestEvents, sync_raises \in BOOLEAN :
          WebhookRequest(sig, ts, inst, ev, sync_raises)
  \/ \E j \in HookReconcilers : ReconBegin(j)
  \/ \E j \in HookReconcilers : ReconApply(j)
  \/ \E j \in HookReconcilers : ReconAck(j)
  \/ faults < MaxFaults /\ \E j \in HookReconcilers : ReconLost(j)

IngestSpec == InitWith({MassTarget}) /\ [][IngestNext]_vars

\* Session provisioning in the active tenants, while connection events
\* arrive for the provisioned instances and are reconciled.
RegistryNext ==
  \/ /\ issued < MaxRequests
     /\ \E tenant \in ActiveTenants, name \in GeneratedNames : CreateSession(tenant, name)
  \/ /\ posted < MaxWebhooks
     /\ \E inst \in InstanceNames, st \in ConnectionStates :
          WebhookRequest(TRUE, TRUE, inst, ConnectionUpdate(st, st), FALSE)
  \/ \E j \in HookReconcilers : ReconBegin(j)
  \/ \E j \in HookReconcilers : ReconApply(j)
  \/ \E j \in HookReconcilers : ReconAck(j)

RegistrySpec == InitWith({MassTarget}) /\ [][RegistryNext]_vars

\* instance names of the stored rows, of the rows operators create, and one
\* that no row carries
AddressedNames ==
  { r.instance_name : r \in SessionRows } \cup GeneratedNames \cup {"ghost"}

\* Webhooks across the tenant partitions: operators of the active tenants
\* provision sessions while connection events arrive for every instance
\* name, known or not, and are reconciled.
PartitionNext ==
  \/ /\ issued < MaxRequests
     /\ \E tenant \in ActiveTenants, name \in GeneratedNames : CreateSession(tenant, name)
  \/ /\ posted < MaxWebhooks
     /\ \E inst \in AddressedNames, st \in ConnectionStates :
          WebhookRequest(TRUE, TRUE, inst, ConnectionUpdate(st, st), FALSE)
  \/ \E j \in HookReconcilers : ReconBegin(j)
  \/ \E j \in HookReconcilers : ReconApply(j)
  \/ \E j \in HookReconcilers : ReconAck(j)

PartitionSpec == InitWith({MassTarget}) /\ [][PartitionNext]_vars

\* Connection events of the campaign's session: the gateway posts
\* connection.update events in either payload shape, every request is
\* stored and processed synchronously without error, and one reconciler
\* works through the stored entries in order.
ConnectionNext ==
  \/ /\ posted < MaxWebhooks
     /\ \E ev \in ConnectionEvents : WebhookRequest(TRUE, TRUE, "voxpop-beta", ev, FALSE)
  \/ \E j \in HookReconcilers : ReconBegin(j)
  \/ \E j \in HookReconcilers : ReconApply(j)
  \/ \E j \in HookReconcilers : ReconAck(j)

ConnectionSpec == InitWith({MassTarget}) /\ [][ConnectionNext]_vars

\* what the gateway answers in the large mailing: accepted, or an exception
LiveResponses ==
  { [ok |-> TRUE, id |-> "m1", error |-> ""],
    [ok |-> FALSE, id |-> None, error |-> "gateway error"] }

\* The large mailing: a campaign with more recipients than one batch is
\* started once and never paused; activations are executed whenever they are
\* queued, and a worker may be lost.
LiveNext ==
  \/ issued = 0 /\ \E h \in Handlers : StartRead(h)
  \/ \E h \in Handlers : StartCommit(h)
  \/ \E w \in Workers : TaskBegin(w)
  \/ \E w \in Workers : ClaimCommit(w)
  \/ \E w \in Workers : EmptyBatch(w)
  \/ \E w \in Workers : LoopCheck(w)
  \/ \E w \in Workers, r \in LiveResponses : SendItemWith(w, r)
  \/ \E w \in Workers : SaveItem(w)
  \/ \E w \in Workers : AfterBatch(w)
  \/ faults < MaxFaults /\ \E w \in Workers : WorkerLost(w)

\* a step of the scheduler in the large mailing
SchedulerStep ==
  \E w \in Workers :
    \/ TaskBegin(w)
    \/ ClaimCommit(w)
    \/ EmptyBatch(w)
    \/ LoopCheck(w)
    \/ \E r \in LiveResponses : SendItemWith(w, r)
    \/ SaveItem(w)
    \/ AfterBatch(w)

\* a queued activation is eventually taken by a worker, and a worker that
\* is not lost goes on with the activation it runs
LiveFairness == WF_vars(SchedulerStep)

LiveSpec == InitWith({MassTarget}) /\ [][LiveNext]_vars /\ LiveFairness

\* the gateway accepting a message
AcceptedResponse == [ok |-> TRUE, id |-> "m1", error |-> ""]

\* Concurrent claims in the large mailing: the campaign is started, paused
\* and started again, so that two activations of it exist, and two workers
\* run them side by side; the gateway accepts every message.
ClaimNext ==
  \/ issued < MaxRequests /\ \E h \in Handlers : StartRead(h)
  \/ \E h \in Handlers : StartCommit(h)
  \/ issued < MaxRequests /\ \E h \in Handlers : PauseRead(h)
  \/ \E h \in Handlers : PauseCommit(h)
  \/ \E w \in Workers : TaskBegin(w)
  \/ \E w \in Workers : ClaimCommit(w)
  \/ \E w \in Workers : EmptyBatch(w)
  \/ \E w \in Workers : LoopCheck(w)
  \/ \E w \in Workers : SendItemWith(w, AcceptedResponse)
  \/ \E w \in Workers : SaveItem(w)
  \/ \E w \in Workers : AfterBatch(w)

ClaimSpec == InitWith({MassTarget}) /\ [][ClaimNext]_vars

\* The item lifecycle: operators start, pause and resume the campaign while
\* one worker claims and sends its items, the gateway posts status events
\* for the messages it accepted, and one reconciler processes them.
LifecycleNext ==
  \/ issued < MaxRequests /\ \E h \in Handlers : StartRead(h)
  \/ \E h \in Handlers : StartCommit(h)
  \/ issued < MaxRequests /\ \E h \in Handlers : PauseRead(h)
  \/ \E h \in Handlers : PauseCommit(h)
  \/ \E w \in HookWorkers : TaskBegin(w)
  \/ \E w \in HookWorkers : ClaimCommit(w)
  \/ \E w \in HookWorkers : EmptyBatch(w)
  \/ \E w \in HookWorkers : LoopCheck(w)
  \/ \E w \in HookWorkers : SendItemWith(w, AcceptedResponse)
  \/ \E w \in HookWorkers : SaveItem(w)
  \/ \E w \in HookWorkers : AfterBatch(w)
  \/ /\ posted < MaxWebhooks
     /\ \E st \in EventStatuses, m \in issuedIds :
          WebhookRequest(TRUE, TRUE, "voxpop-beta", MessageUpdate(st, m), FALSE)
  \/ \E j \in HookReconcilers : ReconBegin(j)
  \/ \E j \in HookReconcilers : ReconApply(j)
  \/ \E j \in HookReconcilers : ReconAck(j)

LifecycleSpec == Init /\ [][LifecycleNext]_vars

\* Racing starts: two start requests for the campaign are handled by two
\* request handlers side by side, while one worker runs the activations
\* they queue; the gateway accepts every message.
StartRaceNext ==
  \/ issued < Cardinality(RacingHandlers) /\ \E h \in RacingHandlers : StartRead(h)
  \/ \E h \in RacingHandlers : StartCommit(h)
  \/ \E w \in HookWorkers : TaskBegin(w)
  \/ \E w \in HookWorkers : ClaimCommit(w)
  \/ \E w \in HookWorkers : LoopCheck(w)
  \/ \E w \in HookWorkers : SendItemWith(w, AcceptedResponse)
  \/ \E w \in HookWorkers : SaveItem(w)
  \/ \E w \in HookWorkers : AfterBatch(w)

StartRaceSpec == Init /\ [][StartRaceNext]_vars

\* ------------------------------------------------------------------------
\* Properties
\* ------------------------------------------------------------------------

Quiescent ==
  /\ queue = 0
  /\ \A w \in Workers : wk[w].pc = "idle"
  /\ \A h \in Handlers : req[h].pc = "idle"

\* C1: no double-send -- for every CampaignItem the gateway send operation
\* is invoked at most once, whatever the interleaving of concurrent or
\* re-delivered activations, also when a worker is lost after its claim
\* transaction committed.
C1_NoDoubleSend == \A k \in ItemIds : sendCount[k] <= 1

\* an item was sent once by a worker that was then lost before saving the
\* outcome, the re-delivered activation has run, and the item was not sent again
C1_Witness ==
  /\ faults > 0
  /\ Quiescent
  /\ \E k \in ItemIds : sendCount[k] = 1 /\ items[k].status = QUEUED

\* C2: in every reachable state messages_sent + messages_failed <=
\* total_recipients, under start, batch activations and reconciled status
\* callbacks.
C2_SentPlusFailedWithinTotal ==
  camp.messages_sent + camp.messages_failed <= camp.total_recipients

\* C3: whenever the campaign's status is COMPLETED,
\* messages_sent + messages_failed = total_recipients (no item of the
\* campaign is still PENDING or QUEUED).
C3_CompletedMeansAllAccounted ==
  camp.status = COMPLETED =>
    /\ camp.messages_sent + camp.messages_failed = camp.total_recipients
    /\ ItemsIn(PENDING) \cup ItemsIn(QUEUED) = {}

\* C4: replaying a delivery-ack is idempotent -- when the same delivery-ack
\* event (same gateway message id) was ingested twice and both entries were
\* reconciled, with no reconciliation job re-delivered, messages_delivered
\* has increased by 1 in total, not by 2.
C4_ReplayedDeliveryAckCountsOnce ==
  ( /\ faults = 0
    /\ Len(logs) = 2
    /\ logs[1] = logs[2]
    /\ logs[1].status = "DELIVERY_ACK"
    /\ logs[1].processed )
  => camp.messages_delivered <= 1

\* C5: re-processing one WebhookLog entry does not double-count -- however
\* often process_webhook runs for an entry, the entry raises a campaign
\* counter at most once.
C5_EntryCountsOnce == \A n \in 1..Len(logs) : applied[n] <= 1

\* C6: starting is idempotent -- a start request that finds the campaign
\* RUNNING creates no items, changes no campaign field and enqueues no
\* activation; start calls made one after the other never leave more items
\* than the first call created.
C6_StartWhileRunningIsNoOp ==
  /\ [][ (camp.status = RUNNING /\ \E h \in Handlers : StartRead(h))
           => UNCHANGED << camp, items, sendCount, queue, req >> ]_vars
  /\ [](Len(items) <= Len(RecipientsMap(target)))

\* a start request was rejected while the campaign was RUNNING with its items
C6_Witness ==
  /\ http.op = "start"
  /\ http.code = 400
  /\ camp.status = RUNNING
  /\ Len(items) = 2

\* C7 as stated: once the stored status is PAUSED no further item is handed
\* to the gateway.
C7_NoSendWhilePaused ==
  [][ camp.status = PAUSED => sendCount' = sendCount ]_vars

\* C7 as amended: the status check that precedes each item's delay and send
\* stops the batch -- a worker whose check finds the campaign not RUNNING
\* sends nothing more, and the unprocessed rest of every batch stays QUEUED
\* and unsent; only an item whose check had passed before the pause was
\* committed is still sent.
C7_PauseStopsAtNextCheck ==
  /\ [][ \A w \in Workers :
           (wk[w].pc = "loop" /\ camp.status # RUNNING /\ wk'[w] # wk[w])
             => /\ wk'[w].pc \in {"after", "idle"}
                /\ sendCount' = sendCount
                /\ items' = items ]_vars
  /\ [](\A w \in Workers :
          wk[w].pc \in {"loop", "after"} =>
            \A n \in wk[w].i .. Len(wk[w].batch) :
              /\ items[wk[w].batch[n]].status = QUEUED
              /\ sendCount[wk[w].batch[n]] = 0)

\* the pause was seen after the first item of a two-item batch: the second
\* item is left QUEUED and unsent
C7_Witness ==
  /\ camp.status = PAUSED
  /\ \E w \in Workers :
       /\ wk[w].pc = "after"
       /\ Len(wk[w].batch) = 2
       /\ wk[w].i = 2
       /\ items[wk[w].batch[1]].status \in {SENT, FAILED}
       /\ items[wk[w].batch[2]].status = QUEUED
       /\ sendCount[wk[w].batch[2]] = 0

\* C8: pause loses no claimed item -- after a pause followed by a start, the
\* items left QUEUED when the batch halted are claimed again and reach SENT
\* or FAILED; so when the scheduler has finished the resumed campaign (status
\* COMPLETED, nothing queued or running, no worker ever lost) no item is
\* still QUEUED.
C8_ResumeSendsQueuedItems ==
  (resumed /\ faults = 0 /\ Quiescent /\ camp.status = COMPLETED)
    => ItemsIn(QUEUED) = {}

\* no session row of any tenant carries the instance name
NoSessionAnywhere(instance_name) ==
  \A r \in sessions : r.instance_name # instance_name

ReachedPhones(rule) ==
  { SelectSeq(Supporters[i].phone, IsDigit) :
      i \in { n \in 1..Len(Supporters) :
                /\ Supporters[n].whatsapp_opt_in
                /\ Supporters[n].tags \cap QsFilterTags(rule) # {} } }
  \cup
  { SelectSeq(TeamMembers[i].phone, IsDigit) :
      i \in { n \in 1..Len(TeamMembers) :
                "team" \in rule.groups /\ TeamMembers[n].is_active } }

\* the targeting error a start of a DRAFT campaign must report, if any
TargetingError(rule) ==
  IF rule.tags = {} /\ rule.groups = {} THEN "NoTargetSelected"
  ELSE IF ReachedPhones(rule) \ {<<>>} = {} THEN "NoRecipientsFound"
  ELSE None

\* C10: targeting errors leave the campaign untouched -- when the targeting
\* rule is empty or reaches no consenting recipient, every start fails with
\* that error, the campaign stays DRAFT with all fields as created, it has
\* no items and no activation is enqueued.
C10_TargetingErrorLeavesDraft ==
  TargetingError(target) # None =>
    /\ camp = NewCampaign
    /\ items = <<>>
    /\ queue = 0
    /\ http.op = "start" => (http.code = 500 /\ http.error = TargetingError(target))

\* a start of a campaign whose rule reaches only a contact without consent
\* has failed
C10_Witness ==
  /\ http.op = "start"
  /\ http.error = "NoRecipientsFound"
  /\ target.tags = {"optout"}
  /\ camp.status = DRAFT

\* every send of the campaign succeeded and the gateway returned a different
\* message id each time
AllSentWithDistinctIds ==
  /\ items # <<>>
  /\ \A k \in ItemIds : items[k].message_id # None
  /\ \A k, l \in ItemIds : k # l => items[k].message_id # items[l].message_id

\* no reconciliation job is queued or running
ReconIdle ==
  /\ \A j \in Reconcilers : rj[j].pc = "idle"
  /\ \A n \in 1..Len(wq) : wq[n] = 0

\* the stored entries are delivery-acks for different message ids, and all
\* of them have been reconciled
AcksReconciled ==
  /\ ReconIdle
  /\ \A n \in 1..Len(logs) : logs[n].status = "DELIVERY_ACK" /\ logs[n].processed
  /\ \A n, m \in 1..Len(logs) : n # m => logs[n].keyId # logs[m].keyId

\* the number of consenting recipients a targeting rule reaches
NumRecipients(rule) == Cardinality(ReachedPhones(rule) \ {<<>>})

\* C11: end to end -- starting a campaign with n consenting recipients
\* creates n PENDING items; without a worker loss the first activation sends
\* every item once, completes the campaign and re-arms nothing; and when
\* every send succeeded with a distinct message id and delivery-acks for k
\* of those ids have been reconciled, messages_sent = n,
\* messages_delivered = k and the status is COMPLETED.
C11_EndToEnd ==
  /\ [][ \A h \in Handlers :
           (req[h].pc = "start" /\ TargetingError(target) = None /\ StartCommit(h))
             => /\ Len(items') = NumRecipients(target)
                /\ \A k \in 1..Len(items') : items'[k].status = PENDING
                /\ camp'.total_recipients = NumRecipients(target) ]_vars
  /\ [][ \A w \in Workers :
           (faults = 0 /\ AfterBatch(w))
             => /\ \A k \in ItemIds : sendCount[k] = 1
                /\ camp'.status = COMPLETED
                /\ queue' = 0 ]_vars
  /\ []( ( /\ faults = 0
           /\ queue = 0
           /\ \A w \in Workers : wk[w].pc = "idle"
           /\ AllSentWithDistinctIds
           /\ AcksReconciled )
         => /\ Len(items) = NumRecipients(target)
            /\ camp.messages_sent = Len(items)
            /\ camp.messages_delivered = Len(logs)
            /\ camp.messages_failed = 0
            /\ camp.status = COMPLETED
            /\ camp.completed_at )

\* two recipients were sent with two message ids and the delivery-ack for
\* one of them has been reconciled
C11_Witness ==
  /\ faults = 0
  /\ Len(items) = 2
  /\ AllSentWithDistinctIds
  /\ Len(logs) = 1
  /\ AcksReconciled
  /\ camp.messages_sent = 2
  /\ camp.messages_delivered = 1
  /\ camp.status = COMPLETED

\* the number of the campaign's items whose status is in a set
CountIn(statuses) == Cardinality({ k \in ItemIds : items[k].status \in statuses })

\* C12: counters are a cache of the items -- in every quiescent state (no
\* request, activation or reconciliation job queued or mid-step) each stored
\* counter equals the value CampaignDetailSerializer re-aggregates from the
\* items: total_recipients = number of items, messages_sent = items in
\* SENT/DELIVERED/READ, messages_delivered = items in DELIVERED/READ,
\* messages_read = items in READ, messages_failed = items in FAILED.
C12_CountersMatchItems ==
  (Quiescent /\ ReconIdle)
    => /\ camp.total_recipients   = Len(items)
       /\ camp.messages_sent      = CountIn({SENT, DELIVERED, READ})
       /\ camp.messages_delivered = CountIn({DELIVERED, READ})
       /\ camp.messages_read      = CountIn({READ})
       /\ camp.messages_failed    = CountIn({FAILED})

\* C13: no lost status update -- for every item the scheduler sent and for
\* which the gateway returned a message id, a delivery-ack or read callback
\* carrying that id ends up applied to the item's campaign counter, whether
\* the callback is reconciled before or after the scheduler has persisted
\* the id; so once everything has run (no worker was lost), every such
\* callback whose id an item carries has been counted.
C13_NoLostStatusUpdate ==
  (faults = 0 /\ Quiescent /\ ReconIdle)
    => \A n \in 1..Len(logs) :
         ( /\ logs[n].status \in {"DELIVERY_ACK", "READ"}
           /\ \E k \in ItemIds : items[k].message_id = logs[n].keyId )
         => applied[n] >= 1

\* C14: monotonic counters -- no campaign counter (messages_sent,
\* messages_delivered, messages_read, messages_failed) decreases in any
\* step of start, pause, batch activation or reconciliation.
C14_CountersNeverDecrease ==
  [][ /\ camp'.messages_sent      >= camp.messages_sent
      /\ camp'.messages_delivered >= camp.messages_delivered
      /\ camp'.messages_read      >= camp.messages_read
      /\ camp'.messages_failed    >= camp.messages_failed ]_vars

\* the campaign's counters
Counters(c) ==
  << c.total_recipients, c.messages_sent, c.messages_delivered, c.messages_read,
     c.messages_failed >>

\* C15: scheduler counter updates are atomic -- every item an activation
\* marks SENT raises the stored messages_sent by one and every item it marks
\* FAILED raises the stored messages_failed by one, whatever other
\* activations and requests did in between, and nothing else of the campaign
\* changes; marking the campaign COMPLETED (or re-arming) changes no counter.
C15_SchedulerIncrementsStoredValue ==
  /\ [][ \A w \in Workers :
           (wk[w].pc = "save" /\ SaveItem(w))
             => LET k == wk[w].batch[wk[w].i] IN
                  /\ items'[k].status \in {SENT, FAILED}
                  /\ items'[k].status = SENT =>
                        camp' = [camp EXCEPT !.messages_sent = camp.messages_sent + 1]
                  /\ items'[k].status = FAILED =>
                        camp' = [camp EXCEPT !.messages_failed = camp.messages_failed + 1] ]_vars
  /\ [][ \A w \in Workers :
           (wk[w].pc \in {"empty", "after"} /\ (EmptyBatch(w) \/ AfterBatch(w)))
             => Counters(camp') = Counters(camp) ]_vars

\* both items of a campaign were processed, one sent and one failed, and
\* the campaign was completed with both increments in place
C15_Witness ==
  /\ camp.status = COMPLETED
  /\ camp.messages_sent = 1
  /\ camp.messages_failed = 1
  /\ CountIn({SENT}) = 1
  /\ CountIn({FAILED}) = 1

\* C16: reconciliation counter updates are atomic -- when the stored status
\* events belong to different items, every increment a reconciliation job
\* makes takes effect, also with jobs running side by side and a batch
\* activation at work: messages_delivered and messages_read equal the number
\* of delivery-ack and read events applied (two delivery-acks raise
\* messages_delivered by exactly 2).
C16_ReconIncrementsAllCount ==
  (\A n, m \in 1..Len(logs) : n # m => logs[n].keyId # logs[m].keyId)
    => \A c \in {"messages_delivered", "messages_read"} :
         camp[c] = Cardinality({ n \in 1..Len(logs) :
                                   CounterOf(logs[n].status) = c /\ applied[n] = 1 })

\* C17: scheduler-driven completion -- a RUNNING campaign that is never
\* paused is eventually COMPLETED with completed_at set, by the chain of
\* activations alone; once it is COMPLETED no activation re-arms itself.
C17_EventuallyCompleted ==
  /\ (camp.status = RUNNING) ~> (camp.status = COMPLETED /\ camp.completed_at)
  /\ [][ camp.status = COMPLETED => queue' <= queue ]_vars

\* the campaign needed a second activation: the first one claimed a full
\* batch and re-armed, and the campaign was completed after all items
C17_Witness ==
  /\ camp.status = COMPLETED
  /\ camp.completed_at
  /\ Len(items) > BATCH_SIZE
  /\ faults = 0
  /\ \A k \in ItemIds : items[k].status \in {SENT, FAILED}

\* C18: a gateway send error is terminal for the item only -- when the
\* gateway call for an item raises, that item becomes FAILED with the error
\* text, messages_failed grows by exactly 1 and nothing else of the campaign
\* changes (its status is not set to FAILED), no other item changes, and the
\* loop moves on to the next item of the batch; a FAILED item is never
\* claimed or sent again.
C18_SendErrorFailsItemOnly ==
  /\ [][ \A w \in Workers :
           (wk[w].pc = "save" /\ ~wk[w].resp.ok /\ SaveItem(w))
             => LET k == wk[w].batch[wk[w].i] IN
                  /\ items' = [items EXCEPT ![k].status = FAILED,
                                            ![k].error_message = wk[w].resp.error]
                  /\ wk[w].resp.error # ""
                  /\ camp' = [camp EXCEPT !.messages_failed = camp.messages_failed + 1]
                  /\ camp'.status = camp.status
                  /\ wk[w].i < Len(wk[w].batch)
                       => (wk'[w].pc = "loop" /\ wk'[w].i = wk[w].i + 1) ]_vars
  /\ [][ \A k \in ItemIds :
           items[k].status = FAILED
             => (items'[k] = items[k] /\ sendCount'[k] = sendCount[k]) ]_vars
  /\ [](\A k \in ItemIds : sendCount[k] <= 1)

\* the first item of a batch failed at the gateway and the second was sent
C18_Witness ==
  /\ Len(items) = 2
  /\ items[1].status = FAILED
  /\ items[1].error_message = "gateway error"
  /\ items[2].status = SENT
  /\ camp.messages_failed = 1
  /\ camp.messages_sent = 1

C20_UnauthenticatedRejected ==
  [][ \A sig \in BOOLEAN, ts \in BOOLEAN, inst \in InstanceNames,
         ev \in IngestEvents, sync_raises \in BOOLEAN :
        ( /\ _validate_signature(sig, ts) # None
          /\ WebhookRequest(sig, ts, inst, ev, sync_raises) )
        => /\ http'.code \notin {200, 202}
           /\ UNCHANGED << logs, wq, session, items, camp, applied >> ]_vars

\* C21: an entry whose reconciliation raised stays stored and stays among the
\* unprocessed entries (processed flag false), so that a sweep over the
\* unprocessed entries can retry it.
C21_FailedEntryStaysUnprocessed ==
  \A n \in 1..Len(logs) : logs[n].error # "" => ~logs[n].processed

\* C22: a status event whose message id matches no CampaignItem and no
\* Message is dropped: the job that takes its entry creates or modifies no
\* CampaignItem and no Message, changes no campaign counter, and has
\* nothing left to apply.
C22_UnmatchedEventDropped ==
  [][ \A j \in Reconcilers :
        ( /\ ReconBegin(j)
          /\ logs[HeadJob].event_type = "messages.update"
          /\ FindItem(logs[HeadJob].keyId) = 0
          /\ FindMessage(messages, logs[HeadJob].keyId) = 0 )
        => /\ UNCHANGED << items, messages, camp, applied >>
           /\ rj'[j].pc = "ack" ]_vars

\* the campaign has items, and an entry whose id matches none of them and
\* no Message has been handled
C22_Witness ==
  /\ Len(items) > 0
  /\ \E n \in 1..Len(logs) :
       /\ logs[n].processed
       /\ FindItem(logs[n].keyId) = 0
       /\ FindMessage(messages, logs[n].keyId) = 0
       /\ applied[n] = 0

InvalidStateResponse(op) == [op |-> op, code |-> 400, error |-> "InvalidState"]

\* C23: start moves the stored status from DRAFT, PAUSED or FAILED to
\* RUNNING and pause moves it from RUNNING to PAUSED, and no other edge; a
\* start requested in SCHEDULED, COMPLETED or CANCELLED and a pause requested
\* outside RUNNING answer InvalidState and change nothing; recipients are
\* populated only when the stored status is DRAFT.
C23_UserDrivenEdges ==
  [][ \A h \in Handlers :
        /\ (StartCommit(h) /\ camp' # camp)
             => (camp.status \in {DRAFT, PAUSED, C_FAILED} /\ camp'.status = RUNNING)
        /\ (PauseCommit(h) /\ camp' # camp)
             => (camp.status = RUNNING /\ camp'.status = PAUSED)
        /\ (StartRead(h) /\ camp.status \in {SCHEDULED, COMPLETED, CANCELLED})
             => (http' = InvalidStateResponse("start") /\ UNCHANGED << camp, items, queue, req >>)
        /\ (PauseRead(h) /\ camp.status # RUNNING)
             => (http' = InvalidStateResponse("pause") /\ UNCHANGED << camp, items, queue, req >>)
        /\ (StartCommit(h) /\ items' # items) => camp.status = DRAFT ]_vars

\* C24: no two items of the campaign hold the same non-null gateway message
\* id, whatever ids the gateway returns.
C24_MessageIdsUnique ==
  \A k, l \in ItemIds :
    (k # l /\ items[k].message_id # None) => items[k].message_id # items[l].message_id

\* the digits-only phones of the items, as a set
ItemPhones(its) == { SelectSeq(its[k].recipient_phone, IsDigit) : k \in 1..Len(its) }

\* C25: after a start has populated a DRAFT campaign there is exactly one
\* item per distinct digits-only phone among the resolved recipients, also
\* when a contact matches several tags or groups or several records
\* normalize to the same digits, and total_recipients is the number of items.
C25_OneItemPerPhone ==
  [][ \A h \in Handlers :
        (StartCommit(h) /\ req[h].snap.status = DRAFT /\ http'.code = 200)
        => /\ \A k, l \in 1..Len(items') :
                k # l => SelectSeq(items'[k].recipient_phone, IsDigit)
                           # SelectSeq(items'[l].recipient_phone, IsDigit)
           /\ ItemPhones(items') = ReachedPhones(target) \ {<<>>}
           /\ camp'.total_recipients = Len(items') ]_vars

\* the campaign targeting tag "vip" was populated: two records normalize to
\* the same digits and one contact carries two tags, and there are two items
C25_Witness ==
  /\ target.tags = {"vip"}
  /\ http = [op |-> "start", code |-> 200, error |-> None]
  /\ camp.total_recipients = 2
  /\ Len(items) = 2
  /\ Cardinality({ n \in 1..Len(Supporters) :
                     SupporterMatches(Supporters[n], target) }) = 3

\* C26: no item is ever created for a directory contact whose WhatsApp
\* opt-in flag is false, whatever tags or groups the campaign targets.
C26_NoItemWithoutConsent ==
  \A k \in ItemIds :
    /\ items[k].supporter # NoSupporter => Supporters[items[k].supporter].whatsapp_opt_in
    /\ \A n \in 1..Len(Supporters) :
         ~Supporters[n].whatsapp_opt_in => items[k].recipient_phone # Supporters[n].phone

\* a campaign whose rule matches the tags of a contact without consent has
\* been populated
C26_Witness ==
  /\ Len(items) > 0
  /\ \E n \in 1..Len(Supporters) :
       /\ ~Supporters[n].whatsapp_opt_in
       /\ Supporters[n].phone # <<>>
       /\ Supporters[n].tags \cap QsFilterTags(target) # {}

\* C27: an activation that finds the stored status different from RUNNING
\* returns at once: it claims and sends nothing, changes no item, counter or
\* campaign status, and does not re-arm itself.
C27_NotRunningExitsSilently ==
  [][ \A w \in Workers :
        (TaskBegin(w) /\ camp.status # RUNNING)
        => /\ wk'[w] = IdleWorker
           /\ queue' = queue - 1
           /\ UNCHANGED << camp, items, sendCount, issuedIds >> ]_vars

\* the campaign is paused, its items are untouched since the pause, and
\* the activation enqueued by the start has been taken and has returned
C27_Witness ==
  /\ camp.status = PAUSED
  /\ issued = 2
  /\ faults = 0
  /\ queue = 0
  /\ \A w \in Workers : wk[w] = IdleWorker
  /\ ItemsIn(PENDING) = ItemIds
  /\ ItemIds # {}

\* C28: an activation that claimed nothing while PENDING items still exist
\* (all locked by concurrent claimers) does not complete the campaign but
\* re-arms itself; the campaign is marked COMPLETED only when no PENDING
\* item remains.
C28_EmptyClaimRearms ==
  [][ /\ \A w \in Workers :
           EmptyBatch(w) =>
             IF ItemsIn(PENDING) # {}
               THEN camp' = camp /\ queue' = queue + 1
               ELSE camp'.status = COMPLETED /\ queue' = queue
      /\ (camp'.status = COMPLETED /\ camp.status # COMPLETED) => ItemsIn(PENDING) = {} ]_vars

\* an activation has claimed nothing because another worker's open claim
\* holds the locks on all PENDING items
C28_Witness ==
  \E w, v \in Workers :
    /\ wk[w].pc = "empty"
    /\ wk[v].pc = "commit"
    /\ ItemsIn(PENDING) # {}
    /\ \A k \in ItemsIn(PENDING) : \E n \in 1..Len(wk[v].batch) : wk[v].batch[n] = k

\* C29: no two sessions, in the same tenant partition or in different ones,
\* have the same external instance identifier, so that resolving an
\* identifier across tenants finds at most one session.
C29_InstanceNameUniqueSystemWide ==
  \A r1, r2 \in sessions : r1.instance_name = r2.instance_name => r1.tenant = r2.tenant

\* the items of a worker's batch, as a set
BatchSet(w) == { wk[w].batch[n] : n \in 1..Len(wk[w].batch) }

Orphaned(k) ==
  /\ items[k].status = QUEUED
  /\ \A w \in Workers :
       wk[w].pc = "idle" \/ \A n \in 1..Len(wk[w].batch) : wk[w].batch[n] # k

\* C31: an item left QUEUED by an activation that was lost before marking it
\* SENT or FAILED is never claimed or sent by a later activation: it stays
\* QUEUED, no gateway call is made for it, and no activation takes it into
\* its batch.
C31_OrphanedItemNeverRetried ==
  [][\A k \in ItemIds :
       Orphaned(k) =>
         /\ items'[k].status = QUEUED
         /\ sendCount'[k] = sendCount[k]
         /\ Orphaned(k)']_vars

\* a worker was lost holding the first batch, the redelivered activation
\* sent the item beyond that batch and completed the campaign, and an item
\* of the lost batch is still QUEUED
C31_Witness ==
  /\ faults > 0
  /\ camp.status = COMPLETED
  /\ \E k \in ItemIds : Orphaned(k) /\ sendCount[k] = 0
  /\ \E k \in ItemIds : k > BATCH_SIZE /\ items[k].status = SENT

\* ------------------------------------------------------------------------
\* Status callbacks on a matched item
\* ------------------------------------------------------------------------

\* C32: a delivery-ack moves a matched CampaignItem to DELIVERED only when
\* the item is currently SENT or QUEUED; an item that is already READ or
\* FAILED is not changed to DELIVERED by a delivery-ack arriving later.
C32_DeliveredOnlyFromSentOrQueued ==
  [][\A k \in ItemIds :
       (items[k].status # DELIVERED /\ items'[k].status = DELIVERED)
         => items[k].status \in {SENT, QUEUED}]_vars

\* the columns of the Campaign row
CampaignFields == DOMAIN NewCampaign

\* reconciler j completes the handling of a status event for a matched item
ProcessesStatusEvent(j) ==
  /\ rj[j].pc = "apply"
  /\ rj'[j].pc = "ack"
  /\ logs[rj[j].log].event_type = "messages.update"

\* C33: processing one status event for a matched CampaignItem increments
\* exactly one campaign counter by exactly 1 (messages_delivered for a
\* delivery-ack, messages_read for a read, messages_failed for a send
\* failure) and leaves every other counter, total_recipients and the
\* campaign's status unchanged; a server-ack changes no counter.
C33_OneCounterPlusOne ==
  [][\A j \in Reconcilers :
       ProcessesStatusEvent(j) =>
         LET c == CounterOf(logs[rj[j].log].status)
         IN /\ c # None => camp'[c] = camp[c] + 1
            /\ \A f \in CampaignFields \ {c} : camp'[f] = camp[f]]_vars

\* C34: a server-ack changes a matched item only if the item is still
\* PENDING (it then becomes QUEUED); an item in any other status keeps its
\* status, and the event changes no campaign counter.
C34_ServerAckOnlyMovesPending ==
  [][\A j \in Reconcilers :
       (ProcessesStatusEvent(j) /\ logs[rj[j].log].status = "SERVER_ACK") =>
         LET k == rj[j].item
         IN /\ items'[k].status =
                 IF items[k].status = PENDING THEN QUEUED ELSE items[k].status
            /\ camp' = camp]_vars

\* ------------------------------------------------------------------------
\* A send accepted without a message id
\* ------------------------------------------------------------------------

\* C35: when a gateway send returns successfully but no message id can be
\* extracted from the response, the send is not failed: the item is marked
\* SENT with its sent-time, its message_id stays unset, messages_sent is
\* incremented by 1 and messages_failed is not incremented.
C35_SentWithoutMessageId ==
  [][\A w \in Workers :
       (wk[w].pc = "save" /\ wk[w].resp.ok /\ wk[w].resp.id = None /\ SaveItem(w))
         => LET k == wk[w].batch[wk[w].i]
            IN /\ items'[k].status = SENT
               /\ items'[k].sent_at
               /\ items'[k].message_id = None
               /\ items'[k].error_message = ""
               /\ camp'.messages_sent = camp.messages_sent + 1
               /\ camp'.messages_failed = camp.messages_failed]_vars

\* the campaign was completed with an item SENT that has no message id
C35_Witness ==
  /\ camp.status = COMPLETED
  /\ camp.messages_sent > 0
  /\ camp.messages_failed = 0
  /\ \E k \in ItemIds :
       /\ items[k].status = SENT
       /\ items[k].sent_at
       /\ items[k].message_id = None
       /\ sendCount[k] = 1

\* ------------------------------------------------------------------------
\* Webhook resolution across tenant partitions
\* ------------------------------------------------------------------------

\* the active tenants whose partition holds an active session of that name
ActiveHolders(instance_name) ==
  { t \in ActiveTenants :
      \E r \in sessions : r.tenant = t /\ r.instance_name = instance_name /\ r.is_active }

AllReconciled ==
  /\ \A n \in 1..Len(logs) : wq[n] = 0 /\ logs[n].processed /\ logs[n].error = ""
  /\ \A j \in Reconcilers : rj[j].pc = "idle"

\* the connection events stored for the campaign's session, by entry number
ConnectionEntries ==
  { n \in 1..Len(logs) :
      /\ logs[n].event_type = "connection.update"
      /\ SessionKey(logs[n].tenant, logs[n].instance_name) = CampaignSession }

\* C37: once the connection events ingested for a session have been
\* reconciled, the session shows what the last of them reported: status
\* CONNECTED and health flag true after an open connection, status
\* DISCONNECTED and health flag false after a closed one.
C37_SessionFollowsLastEvent ==
  (AllReconciled /\ ConnectionEntries # {}) =>
     LET last == CHOOSE n \in ConnectionEntries : \A m \in ConnectionEntries : m <= n
         s    == session[CampaignSession]
     IN /\ logs[last].data_state = "open"
             => (s.status = S_CONNECTED /\ s.is_healthy)
        /\ logs[last].data_state = "close"
             => (s.status = S_DISCONNECTED /\ ~s.is_healthy)

\* ------------------------------------------------------------------------
\* Pause against the running activations
\* ------------------------------------------------------------------------

\* C38: a paused campaign stays paused: once pause has set the campaign to
\* PAUSED its status remains PAUSED until a start changes it, and no batch
\* activation (the one the pause interrupted, or one it re-armed) changes
\* the status of a campaign that is not RUNNING to COMPLETED.
C38_PausedStaysPaused ==
  /\ [][(camp.status = PAUSED /\ camp'.status # PAUSED)
          => \E h \in Handlers : req[h].pc = "start" /\ StartCommit(h)]_vars
  /\ [][(camp.status \notin {RUNNING, COMPLETED}) => camp'.status # COMPLETED]_vars

\* ------------------------------------------------------------------------
\* Racing starts
\* ------------------------------------------------------------------------

\* no start request is being handled
NoStartInFlight == \A h \in RacingHandlers : req[h].pc = "idle"

\* C39: two start requests racing on the same DRAFT campaign (both read
\* status DRAFT before either commits) populate the recipients once: no
\* recipient phone has two CampaignItems in the campaign, and
\* total_recipients equals the number of items.
C39_RacingStartsPopulateOnce ==
  (NoStartInFlight /\ camp.status # DRAFT) =>
     /\ \A k, l \in ItemIds :
          k # l => SelectSeq(items[k].recipient_phone, IsDigit)
                     # SelectSeq(items[l].recipient_phone, IsDigit)
     /\ camp.total_recipients = Len(items)

\* ------------------------------------------------------------------------
\* The item lifecycle
\* ------------------------------------------------------------------------

\* C40: a CampaignItem's status never returns to PENDING once it has left
\* PENDING, under any sequence of scheduler claims and sends, pause and
\* resume, and reconciled status callbacks.
C40_NeverBackToPending ==
  [][\A k \in ItemIds : items[k].status # PENDING => items'[k].status # PENDING]_vars

\* the campaign was paused and resumed, and a status callback for one of
\* its messages was reconciled: the item it matched is past SENT while
\* another item is still waiting
C40_Witness ==
  /\ resumed
  /\ \E n \in 1..Len(logs) : logs[n].processed /\ applied[n] > 0
  /\ \E k \in ItemIds : items[k].status \in {DELIVERED, READ, FAILED} /\ items[k].sent_at
  /\ \E k \in ItemIds : items[k].status \in {PENDING, QUEUED}

====
